---- MODULE Spec2Model ----
(***************************************************************************)
(* Model of the iterators of the itm crate (src/itm/src/iter.rs):          *)
(*   - Singles, which hands out the decoder's packets one by one;          *)
(*   - Timestamps, which collects packets until a local timestamp closes   *)
(*     the group and keeps the running GTS/LTS clock state.                *)
(* The decoder (Decoder::next_single) is an input of this model: every     *)
(* call returns one result drawn from DecoderResults.                      *)
(***************************************************************************)
EXTENDS Integers, Sequences, FiniteSets, TLC

\* ------------------------------------------------------------------ bounds

\* Number of Decoder::next_single calls explored in one behaviour.
MaxCalls == 4

\* ------------------------------------------------------------ input domains

\* TimestampDataRelation
DataRelations == {"Sync", "UnknownDelay", "AssocEventDelay", "UnknownAssocEventDelay"}

\* LocalTimestampOptions that calc_offset has a prescale for.
Prescalers == {"Enabled", "EnabledDiv4", "EnabledDiv16", "EnabledDiv64"}

\* Raw tick values carried by the packets of the explored streams.
Lts1Ticks == {246, 134217727}
Lts2Ticks == {3, 6}

\* The ticks of global timestamps are u64 values, written as numerals: bits,
\* most significant first.
Gts1Ticks == {<<1>>}
Gts2Ticks == {<<1>>}

\* Markers of malformed packets.
MalformedMarkers == {"m1"}

\* TracePacket: the variants the timestamp engine tells apart, and two data
\* packets that it only buffers.
LocalTimestamp1Packets ==
    [type : {"LocalTimestamp1"}, ts : Lts1Ticks, data_relation : DataRelations]

LocalTimestamp2Packets == [type : {"LocalTimestamp2"}, ts : Lts2Ticks]

GlobalTimestamp1Packets ==
    [type : {"GlobalTimestamp1"}, ts : Gts1Ticks, wrap : BOOLEAN, clkch : BOOLEAN]

GlobalTimestamp2Packets == [type : {"GlobalTimestamp2"}, ts : Gts2Ticks]

DataPackets == {[type |-> "Overflow"], [type |-> "PCSample"]}

TracePackets ==
    LocalTimestamp1Packets \cup LocalTimestamp2Packets
        \cup GlobalTimestamp1Packets \cup GlobalTimestamp2Packets \cup DataPackets

\* Result<TracePacket, DecoderErrorInt> of Decoder::next_single.
OkResults == [tag : {"Ok"}, packet : TracePackets]
MalformedResults == [tag : {"MalformedPacket"}, m : MalformedMarkers]
ErrEof == [tag |-> "Eof"]
ErrIo == [tag |-> "Io"]
DecoderResults == OkResults \cup MalformedResults \cup {ErrEof, ErrIo}

\* TimestampsConfiguration values that Timestamps::new is called with.
ClockFrequencies == {16000000}
Configurations ==
    [clock_frequency : ClockFrequencies,
     lts_prescaler : {"Enabled", "Disabled"},
     expect_malformed : BOOLEAN]

\* ------------------------------------------------------------------ Option

None == <<>>
Some(v) == <<v>>
IsSome(o) == Len(o) = 1
Unwrap(o) == o[1]

\* ------------------------------------------------- unsigned binary numerals
\* Numbers wider than the checker's integers (f64 significands, u64
\* nanosecond counts) are sequences of bits, most significant bit first,
\* without leading zeros; the empty sequence is zero.  They are multiplied
\* and divided by small integers a chunk of bits at a time, every
\* intermediate value staying below 2^31.

RECURSIVE ToBits(_)
ToBits(n) == IF n = 0 THEN <<>> ELSE Append(ToBits(n \div 2), n % 2)

RECURSIVE BitsToInt(_)
BitsToInt(b) ==
    IF Len(b) = 0 THEN 0 ELSE 2 * BitsToInt(SubSeq(b, 1, Len(b) - 1)) + b[Len(b)]

\* b without its leading zeros.
Strip(b) ==
    IF \A i \in 1..Len(b) : b[i] = 0 THEN <<>>
    ELSE LET first == CHOOSE i \in 1..Len(b) :
                          b[i] = 1 /\ \A j \in 1..(i - 1) : b[j] = 0
         IN  SubSeq(b, first, Len(b))

Zeros(k) == [i \in 1..k |-> 0]

\* The w-bit numeral of n < 2^w, leading zeros kept.
Pad(n, w) == LET bits == ToBits(n) IN Zeros(w - Len(bits)) \o bits

ShiftLeft(b, k) == IF Len(b) = 0 THEN <<>> ELSE b \o Zeros(k)

AnyBit(b) == \E i \in 1..Len(b) : b[i] = 1

BitLen(n) == Len(ToBits(n))

\* Bits handled per step so that a chunk times c, plus a carry or a
\* remainder below c, stays below 2^31.
ChunkBits(c) == 30 - BitLen(c)

\* b * c + a, for 0 < c < 2^29 and a <= c: the bits of b are multiplied w at
\* a time from the least significant end (hi counts down); acc holds the
\* bits of the product found so far.
RECURSIVE MulAddGo(_, _, _, _, _, _)
MulAddGo(b, hi, w, c, carry, acc) ==
    IF hi = 0 THEN ToBits(carry) \o acc
    ELSE LET lo == IF hi > w THEN hi - w + 1 ELSE 1
             n  == hi - lo + 1
             t  == BitsToInt(SubSeq(b, lo, hi)) * c + carry
         IN  MulAddGo(b, lo - 1, w, c, t \div (2 ^ n), Pad(t % (2 ^ n), n) \o acc)

MulAddSmall(b, c, a) == Strip(MulAddGo(b, Len(b), ChunkBits(c), c, a, <<>>))

\* Quotient and remainder of b by d, 0 < d < 2^29: long division, w bits at a
\* time from the most significant end (lo counts up); q holds the bits of the
\* quotient found so far.
RECURSIVE DivGo(_, _, _, _, _, _)
DivGo(b, lo, w, d, rem, q) ==
    IF lo > Len(b) THEN [q |-> Strip(q), r |-> rem]
    ELSE LET hi == IF lo + w - 1 < Len(b) THEN lo + w - 1 ELSE Len(b)
             n  == hi - lo + 1
             t  == rem * (2 ^ n) + BitsToInt(SubSeq(b, lo, hi))
         IN  DivGo(b, hi + 1, w, d, t % d, q \o Pad(t \div d, n))

DivSmall(b, d) == DivGo(b, 1, ChunkBits(d), d, 0, <<>>)

\* The w bits of b from bit k on, bit 0 being the least significant.
Low(b, k, w) ==
    IF Len(b) <= k THEN <<>>
    ELSE SubSeq(b, IF Len(b) - k - w + 1 > 1 THEN Len(b) - k - w + 1 ELSE 1, Len(b) - k)

\* a + b + carry, w bits at a time from the least significant end; k bits
\* are done and acc holds them.
RECURSIVE AddGo(_, _, _, _, _, _)
AddGo(a, b, k, w, carry, acc) ==
    IF k >= Len(a) /\ k >= Len(b) THEN ToBits(carry) \o acc
    ELSE LET t == BitsToInt(Low(a, k, w)) + BitsToInt(Low(b, k, w)) + carry
         IN  AddGo(a, b, k + w, w, t \div (2 ^ w), Pad(t % (2 ^ w), w) \o acc)

AddBits(a, b, carry) == Strip(AddGo(a, b, 0, 28, carry, <<>>))

\* a < b and a <= b for numerals without leading zeros.
BitsLt(a, b) ==
    \/ Len(a) < Len(b)
    \/ /\ Len(a) = Len(b)
       /\ \E i \in 1..Len(a) : a[i] < b[i] /\ \A j \in 1..(i - 1) : a[j] = b[j]

BitsLe(a, b) == a = b \/ BitsLt(a, b)

\* b >> k
ShiftRight(b, k) == IF Len(b) <= k THEN <<>> ELSE SubSeq(b, 1, Len(b) - k)

\* n = OddPart(n) * 2^TwoExp(n) for n > 0.
RECURSIVE TwoExp(_)
TwoExp(n) == IF n % 2 = 1 THEN 0 ELSE 1 + TwoExp(n \div 2)

OddPart(n) == n \div (2 ^ TwoExp(n))

\* ---------------------------------------------------------------- f64
\* A finite non-negative f64 is [m, e], standing for m * 2^e with m a
\* numeral of at most F64Mantissa bits.  Every operation is the exact
\* result rounded to nearest, ties to even (IEEE 754 binary64).

F64Mantissa == 53

\* Values of 2^F64MaxExp and more are infinite.  Infinity is the numeral 1
\* with that exponent; NaN, which `as u64` turns into 0 as it does zero, is
\* the numeral 0 with that exponent.
F64MaxExp == 1024
F64Inf == [m |-> <<1>>, e |-> F64MaxExp]
F64NaN == [m |-> <<>>, e |-> F64MaxExp]

\* (b + fraction) * 2^e rounded to an f64; sticky says the fraction that was
\* cut off below b is not zero, and is only given with Len(b) > F64Mantissa.
RoundToF64(b, e, sticky) ==
    IF Len(b) > 0 /\ Len(b) + e > F64MaxExp THEN F64Inf
    ELSE IF Len(b) <= F64Mantissa THEN [m |-> b, e |-> e]
    ELSE LET m0    == SubSeq(b, 1, F64Mantissa)
             guard == b[F64Mantissa + 1]
             rest  == sticky \/ AnyBit(SubSeq(b, F64Mantissa + 2, Len(b)))
             up    == guard = 1 /\ (rest \/ m0[F64Mantissa] = 1)
         IN  [m |-> IF up THEN MulAddSmall(m0, 1, 1) ELSE m0,
              e |-> e + Len(b) - F64Mantissa]

\* `n as f64` for the numeral n of a u64 or u32.
U64AsF64(n) == RoundToF64(n, 0, FALSE)

\* x / d for an f64 x and the f64 of an integer d >= 0.  The power of two
\* in d only moves the exponent; the quotient by its odd part is cut after
\* more than F64Mantissa + 1 bits and rounded.  Division by zero gives
\* infinity, and NaN for 0.0 / 0.0.
F64Div(x, d) ==
    IF d = 0 THEN (IF Len(x.m) = 0 THEN F64NaN ELSE F64Inf)
    ELSE LET odd == OddPart(d)
             k   == F64Mantissa + 1 + BitLen(odd)
             qr  == DivSmall(ShiftLeft(x.m, k), odd)
         IN  RoundToF64(qr.q, x.e - k - TwoExp(d), qr.r # 0)

\* x * c for an f64 x and the f64 of a positive integer c < 2^53.
F64Mul(x, c) ==
    RoundToF64(MulAddSmall(x.m, OddPart(c), 0), x.e + TwoExp(c), FALSE)

\* x.ceil(), as the numeral of the resulting integer.
F64Ceil(x) ==
    IF Len(x.m) = 0 THEN <<>>
    ELSE IF x.e >= 0 THEN ShiftLeft(x.m, x.e)
    ELSE IF Len(x.m) <= -x.e THEN <<1>>
    ELSE LET ip == SubSeq(x.m, 1, Len(x.m) + x.e)
             fr == SubSeq(x.m, Len(x.m) + x.e + 1, Len(x.m))
         IN  IF AnyBit(fr) THEN MulAddSmall(ip, 1, 1) ELSE ip

\* `as u64` of a non-negative integer-valued f64: saturating, so that
\* infinity gives u64::MAX.
U64Bits == 64
F64AsU64(b) == IF Len(b) > U64Bits THEN [i \in 1..U64Bits |-> 1] ELSE b

\* ------------------------------------------------------------- Duration
\* std::time::Duration: whole seconds, a u64 kept as a numeral, and the
\* nanoseconds below one second.

NanosPerSec == 1000000000

\* Duration::from_nanos: nanos / 10^9 and nanos % 10^9, dividing by 2^9 and
\* then by 5^9.
DurationFromNanos(b) ==
    LET j   == TwoExp(NanosPerSec)
        cut == IF Len(b) > j THEN Len(b) - j ELSE 0
        qr  == DivSmall(SubSeq(b, 1, cut), OddPart(NanosPerSec))
    IN  [secs  |-> qr.q,
         nanos |-> qr.r * (2 ^ j) + BitsToInt(SubSeq(b, cut + 1, Len(b)))]

DurationZero == [secs |-> <<>>, nanos |-> 0]

\* Duration + Duration.  It panics when the seconds leave u64, which takes
\* more additions than any explored stream makes.
DurationAdd(a, b) ==
    LET n == a.nanos + b.nanos
    IN  IF n >= NanosPerSec
        THEN [secs |-> AddBits(a.secs, b.secs, 1), nanos |-> n - NanosPerSec]
        ELSE [secs |-> AddBits(a.secs, b.secs, 0), nanos |-> n]

DurationLe(a, b) ==
    BitsLt(a.secs, b.secs) \/ (a.secs = b.secs /\ a.nanos <= b.nanos)

\* ---------------------------------------------------------- calc_offset

Prescale(prescaler) ==
    CASE prescaler = "None" -> 1
      [] prescaler = "Enabled" -> 1
      [] prescaler = "EnabledDiv4" -> 4
      [] prescaler = "EnabledDiv16" -> 16
      [] prescaler = "EnabledDiv64" -> 64

\* ts is the numeral of a u64.  ts * prescale stays within u64 in every call
\* that is made: a prescaler other than None comes with the ticks of a
\* local timestamp, which are widened from a u32.
calc_offset(ts, prescaler, freq) ==
    LET ticks   == MulAddSmall(ts, Prescale(prescaler), 0)
        seconds == F64Div(U64AsF64(ticks), freq)
    IN  DurationFromNanos(F64AsU64(F64Ceil(F64Mul(seconds, NanosPerSec))))

\* ---------------------------------------------------------------- Gts
\* The halves of Gts are u64 values, kept as numerals.

\* Bitwise or of two numerals.
BitOr(a, b) ==
    LET n  == IF Len(a) > Len(b) THEN Len(a) ELSE Len(b)
        pa == Zeros(n - Len(a)) \o a
        pb == Zeros(n - Len(b)) \o b
    IN  Strip([i \in 1..n |-> IF pa[i] = 1 \/ pb[i] = 1 THEN 1 ELSE 0])

\* What is left of a numeral in a u64.
TruncU64(b) == Strip(Low(b, 0, U64Bits))

\* A panic of the running thread.
Panic == [tag |-> "Panic"]

GTS2_SHIFT == 26

\* Gts::replace_lower: shift = 64 - new.leading_zeros() is the bit length
\* of new.  `old >> shift` with shift = 64 overflows: a build with overflow
\* checks panics, a build without them shifts by shift % 64.
replace_lower(gts, new, overflow_checks) ==
    IF ~IsSome(gts.lower) THEN [gts EXCEPT !.lower = Some(new)]
    ELSE LET old   == Unwrap(gts.lower)
             shift == Len(new)
             by    == shift % U64Bits
         IN  IF shift >= U64Bits /\ overflow_checks THEN Panic
             ELSE [gts EXCEPT !.lower =
                      Some(BitOr(TruncU64(ShiftLeft(ShiftRight(old, by), by)), new))]

\* A faulty reset that clears the upper half only; C16_ClockChange rejects
\* it.
reset_keeps_lower(gts) == [gts EXCEPT !.upper = None]

\* Gts::reset
reset(gts) == [lower |-> None, upper |-> None]

\* A faulty merge that keeps the bits shifted beyond bit 63; C27_MergeWraps
\* rejects it.
merge_untruncated(gts) ==
    IF IsSome(gts.lower) /\ IsSome(gts.upper)
    THEN Some(BitOr(ShiftLeft(Unwrap(gts.upper), GTS2_SHIFT), Unwrap(gts.lower)))
    ELSE None

\* A faulty merge that does not shift the upper half; C17_GtsCompression
\* rejects it.
merge_without_shift(gts) ==
    IF IsSome(gts.lower) /\ IsSome(gts.upper)
    THEN Some(BitOr(Unwrap(gts.upper), Unwrap(gts.lower)))
    ELSE None

\* Gts::merge.  checked_shl fails for a shift of 64 or more only, so the
\* expect never panics and the bits shifted out of the u64 are lost.
merge(gts) ==
    IF IsSome(gts.lower) /\ IsSome(gts.upper)
    THEN Some(BitOr(TruncU64(ShiftLeft(Unwrap(gts.upper), GTS2_SHIFT)),
                    Unwrap(gts.lower)))
    ELSE None

\* ------------------------------------- arguments calc_offset is called with

LowerValues ==
    Gts1Ticks \cup
        {Unwrap(replace_lower([lower |-> Some(a), upper |-> None], b, FALSE).lower) :
            a \in Gts1Ticks, b \in Gts1Ticks}

MergedValues ==
    LowerValues \cup
        {Unwrap(merge([lower |-> Some(l), upper |-> Some(u)])) :
            l \in LowerValues, u \in Gts2Ticks}

OffsetArguments ==
    ({ToBits(ts) : ts \in Lts1Ticks \cup Lts2Ticks}
        \X ({c.lts_prescaler : c \in Configurations} \cap Prescalers)
        \X ClockFrequencies)
        \cup (MergedValues \X {"None"} \X ClockFrequencies)

\* ------------------------------------------------------------- the state

VARIABLES
    mode,               \* "singles" or "timestamps": the iterator made of the decoder
    options,            \* Timestamps::options
    served,             \* the results Decoder::next_single has returned, in order
    current_offset,     \* Timestamps::current_offset
    prev_lts,           \* Timestamps::prev_lts
    gts,                \* Timestamps::gts
    pc,                 \* "idle", "loop" inside next_timestamped, or "panicked"
    packets,            \* locals of next_timestamped
    malformed_packets,
    consumed_packets,
    ret,                \* what the last finished next_timestamped returned
    item,               \* what the last finished Iterator::next returned
    groups,             \* the groups returned so far, in order
    closed_at,          \* Len(served) when each of them was returned
    offset_table,       \* calc_offset, computed once for OffsetArguments
    call,               \* a function of the crate and its arguments, called alone
    result              \* what that call returned

vars == <<mode, options, served, current_offset, prev_lts, gts, pc, packets,
          malformed_packets, consumed_packets, ret, item, groups, closed_at,
          offset_table, call, result>>

\* calc_offset is a pure function: its value for the arguments that the
\* packets of the explored streams lead to is looked up in offset_table, and
\* computed on the spot for any other argument.
calc_offset_of(ts, prescaler, freq) ==
    IF <<ts, prescaler, freq>> \in DOMAIN offset_table
    THEN offset_table[<<ts, prescaler, freq>>]
    ELSE calc_offset(ts, prescaler, freq)

fixed == <<mode, options, offset_table, call, result>>
engine == <<current_offset, prev_lts, gts>>
locals == <<packets, malformed_packets, consumed_packets>>

NotCalled == [tag |-> "NotCalled"]

\* The fields Timestamps::new sets besides decoder and options.
Fresh ==
    [current_offset |-> DurationZero,
     gts |-> [lower |-> None, upper |-> None],
     prev_lts |-> DurationZero]

\* A faulty Timestamps::new that builds the engine whatever the prescaler;
\* C11_DisabledRefused rejects it.
new_unchecked(opts) == Fresh

\* Timestamps::new: the fields of the new engine, or the panic of
\* unimplemented!().
new(opts) == IF opts.lts_prescaler = "Disabled" THEN Panic ELSE Fresh

\* The state after Singles::new or Timestamps::new.  Singles has no options
\* and no clock; after a panic there is no engine, and the variables that
\* stand for its fields are never read.
Init ==
    /\ mode \in {"singles", "timestamps"}
    /\ options \in Configurations
    /\ (mode = "singles" => options = CHOOSE c \in Configurations : TRUE)
    /\ served = <<>>
    /\ LET made   == IF mode = "timestamps" THEN new(options) ELSE Fresh
           fields == IF made = Panic THEN Fresh ELSE made
       IN  /\ pc = IF made = Panic THEN "panicked" ELSE "idle"
           /\ current_offset = fields.current_offset
           /\ prev_lts = fields.prev_lts
           /\ gts = fields.gts
    /\ packets = <<>>
    /\ malformed_packets = <<>>
    /\ consumed_packets = 0
    /\ ret = NotCalled
    /\ item = NotCalled
    /\ groups = <<>>
    /\ closed_at = <<>>
    /\ offset_table = [a \in OffsetArguments |-> calc_offset(a[1], a[2], a[3])]
    /\ call = NotCalled
    /\ result = NotCalled

\* --------------------------------------------------------------- Singles

\* Singles::next
SinglesItem(trace) ==
    CASE trace.tag = "Eof" -> [tag |-> "None"]
      [] trace.tag = "Io" -> [tag |-> "Some", res |-> "Err", err |-> [tag |-> "Io"]]
      [] trace.tag = "MalformedPacket" ->
            [tag |-> "Some", res |-> "Err",
             err |-> [tag |-> "MalformedPacket", m |-> trace.m]]
      [] trace.tag = "Ok" -> [tag |-> "Some", res |-> "Ok", val |-> trace.packet]

SinglesNext ==
    /\ mode = "singles"
    /\ Len(served) < MaxCalls
    /\ \E r \in DecoderResults :
          /\ served' = Append(served, r)
          /\ item' = SinglesItem(r)
    /\ UNCHANGED <<fixed, engine, pc, locals, ret, groups, closed_at>>

\* ------------------------------------------------------------ Timestamps

\* A faulty apply_lts that restarts the clock at each local timestamp instead
\* of adding to it; C3_Monotonic rejects it.
apply_lts_restarts(prev_offset, lts, data_relation, offset_now, opts) ==
    LET curr  == calc_offset_of(lts, opts.lts_prescaler, opts.clock_frequency)
        stamp ==
            IF data_relation \in {"Sync", "AssocEventDelay"}
            THEN [kind |-> data_relation, curr |-> curr]
            ELSE [kind |-> data_relation, prev |-> prev_offset, curr |-> curr]
    IN  [timestamp |-> stamp, current_offset |-> curr, prev_offset |-> curr]

\* A faulty apply_lts that reports the new time as the previous one too;
\* C4_ClosedByLts rejects it.
apply_lts_forgets_prev(prev_offset, lts, data_relation, offset_now, opts) ==
    LET offset == calc_offset_of(lts, opts.lts_prescaler, opts.clock_frequency)
        curr   == DurationAdd(offset_now, offset)
        stamp  ==
            IF data_relation \in {"Sync", "AssocEventDelay"}
            THEN [kind |-> data_relation, curr |-> curr]
            ELSE [kind |-> data_relation, prev |-> curr, curr |-> curr]
    IN  [timestamp |-> stamp, current_offset |-> curr, prev_offset |-> curr]

\* apply_lts: the new current_offset and prev_offset, and the Timestamp.
apply_lts(prev_offset, lts, data_relation, offset_now, opts) ==
    LET offset == calc_offset_of(lts, opts.lts_prescaler, opts.clock_frequency)
        curr   == DurationAdd(offset_now, offset)
        stamp  ==
            CASE data_relation = "Sync" -> [kind |-> "Sync", curr |-> curr]
              [] data_relation = "UnknownDelay" ->
                    [kind |-> "UnknownDelay", prev |-> prev_offset, curr |-> curr]
              [] data_relation = "AssocEventDelay" ->
                    [kind |-> "AssocEventDelay", curr |-> curr]
              [] data_relation = "UnknownAssocEventDelay" ->
                    [kind |-> "UnknownAssocEventDelay", prev |-> prev_offset,
                     curr |-> curr]
    IN  [timestamp |-> stamp, current_offset |-> curr, prev_offset |-> curr]

\* apply_gts: the new current_offset.
apply_gts(g, offset_now, opts) ==
    IF IsSome(merge(g))
    THEN calc_offset_of(Unwrap(merge(g)), "None", opts.clock_frequency)
    ELSE offset_now

\* A faulty Timestamps::next that ends the iteration on any error;
\* C10_IteratorItems rejects it.
TimestampsItem_ends_on_error(trace) ==
    IF trace.tag = "Ok"
    THEN [tag |-> "Some", res |-> "Ok", val |-> trace.group]
    ELSE [tag |-> "None"]

\* Timestamps::next
TimestampsItem(trace) ==
    CASE trace.tag = "Eof" -> [tag |-> "None"]
      [] trace.tag = "Io" -> [tag |-> "Some", res |-> "Err", err |-> [tag |-> "Io"]]
      [] trace.tag = "MalformedPacket" ->
            [tag |-> "Some", res |-> "Err",
             err |-> [tag |-> "MalformedPacket", m |-> trace.m]]
      [] trace.tag = "Ok" -> [tag |-> "Some", res |-> "Ok", val |-> trace.group]

\* Timestamps::next calls next_timestamped, which starts with empty buffers.
Call ==
    /\ mode = "timestamps"
    /\ pc = "idle"
    /\ Len(served) < MaxCalls
    /\ pc' = "loop"
    /\ packets' = <<>>
    /\ malformed_packets' = <<>>
    /\ consumed_packets' = 0
    /\ UNCHANGED <<fixed, served, engine, ret, item, groups, closed_at>>

\* One turn of the loop of next_timestamped: the decoder is asked for r.
Turn(r) ==
    /\ mode = "timestamps"
    /\ pc = "loop"
    /\ Len(served) < MaxCalls
    /\ served' = Append(served, r)
    /\ UNCHANGED fixed

\* next_timestamped returns trace, and Timestamps::next the item made of it;
\* the buffers of the call are gone.
Return(trace) ==
    /\ ret' = trace
    /\ item' = TimestampsItem(trace)
    /\ pc' = "idle"
    /\ packets' = <<>>
    /\ malformed_packets' = <<>>
    /\ consumed_packets' = 0

\* A faulty arm that tolerates malformed packets whatever the configuration;
\* C7_ErrorsReturned rejects it.
TolerateMalformed_always ==
    \E r \in MalformedResults :
        /\ Turn(r)
        /\ malformed_packets' = Append(malformed_packets, r.m)
        /\ consumed_packets' = consumed_packets + 1
        /\ UNCHANGED <<engine, pc, packets, ret, item, groups, closed_at>>

\* Err(MalformedPacket(m)) if options.expect_malformed
TolerateMalformed ==
    \E r \in MalformedResults :
        /\ Turn(r)
        /\ options.expect_malformed
        /\ malformed_packets' = Append(malformed_packets, r.m)
        /\ consumed_packets' = consumed_packets + 1
        /\ UNCHANGED <<engine, pc, packets, ret, item, groups, closed_at>>

\* A faulty arm that emits what the call has gathered when the decoder
\* returns Eof; C6_EofEmitsNothing rejects it.
ReturnErr_flushes ==
    \E r \in MalformedResults \cup {ErrEof, ErrIo} :
        /\ Turn(r)
        /\ ~(r.tag = "MalformedPacket" /\ options.expect_malformed)
        /\ Return(r)
        /\ IF r = ErrEof
           THEN /\ groups' = Append(groups,
                        [timestamp |-> [kind |-> "Sync", curr |-> current_offset],
                         packets |-> packets,
                         malformed_packets |-> malformed_packets,
                         consumed_packets |-> consumed_packets])
                /\ closed_at' = Append(closed_at, Len(served) + 1)
           ELSE UNCHANGED <<groups, closed_at>>
        /\ UNCHANGED engine

\* A faulty arm that loses the clock on an Io error; C9_IoLeavesEngine
\* rejects it.
ReturnErr_resets ==
    \E r \in MalformedResults \cup {ErrEof, ErrIo} :
        /\ Turn(r)
        /\ ~(r.tag = "MalformedPacket" /\ options.expect_malformed)
        /\ Return(r)
        /\ current_offset' = IF r = ErrIo THEN DurationZero ELSE current_offset
        /\ UNCHANGED <<prev_lts, gts, groups, closed_at>>

\* A faulty arm that forgets the upper half when the call fails;
\* C26_NoRollback rejects it.
ReturnErr_drops_upper ==
    \E r \in MalformedResults \cup {ErrEof, ErrIo} :
        /\ Turn(r)
        /\ ~(r.tag = "MalformedPacket" /\ options.expect_malformed)
        /\ Return(r)
        /\ gts' = [gts EXCEPT !.upper = None]
        /\ UNCHANGED <<current_offset, prev_lts, groups, closed_at>>

\* Err(e) => return Err(e)
ReturnErr ==
    \E r \in MalformedResults \cup {ErrEof, ErrIo} :
        /\ Turn(r)
        /\ ~(r.tag = "MalformedPacket" /\ options.expect_malformed)
        /\ Return(r)
        /\ UNCHANGED <<engine, groups, closed_at>>

\* A faulty close that leaves the malformed markers out of the group;
\* C8_MalformedTolerated rejects it.
CloseGroup_without_markers(ts, data_relation) ==
    LET lts == apply_lts(prev_lts, ts, data_relation, current_offset, options)
        group == [timestamp |-> lts.timestamp,
                  packets |-> packets,
                  malformed_packets |-> <<>>,
                  consumed_packets |-> consumed_packets + 1]
    IN  /\ current_offset' = lts.current_offset
        /\ prev_lts' = lts.prev_offset
        /\ Return([tag |-> "Ok", group |-> group])
        /\ groups' = Append(groups, group)
        /\ closed_at' = Append(closed_at, Len(served) + 1)
        /\ UNCHANGED gts

\* The group a local timestamp closes.
CloseGroup(ts, data_relation) ==
    LET lts == apply_lts(prev_lts, ts, data_relation, current_offset, options)
        group == [timestamp |-> lts.timestamp,
                  packets |-> packets,
                  malformed_packets |-> malformed_packets,
                  consumed_packets |-> consumed_packets + 1]
    IN  /\ current_offset' = lts.current_offset
        /\ prev_lts' = lts.prev_offset
        /\ Return([tag |-> "Ok", group |-> group])
        /\ groups' = Append(groups, group)
        /\ closed_at' = Append(closed_at, Len(served) + 1)
        /\ UNCHANGED gts

\* TracePacket::LocalTimestamp1 { ts, data_relation }
CloseLts1 ==
    \E p \in LocalTimestamp1Packets :
        /\ Turn([tag |-> "Ok", packet |-> p])
        /\ CloseGroup(ToBits(p.ts), p.data_relation)

\* TracePacket::LocalTimestamp2 { ts }
CloseLts2 ==
    \E p \in LocalTimestamp2Packets :
        /\ Turn([tag |-> "Ok", packet |-> p])
        /\ CloseGroup(ToBits(p.ts), "Sync")

\* A faulty arm that tests clkch before wrap; C22_Gts1Order rejects it.
apply_gts1_clkch_first(g, offset_now, p, opts, overflow_checks) ==
    LET lowered == replace_lower(g, p.ts, overflow_checks)
    IN  IF lowered = Panic THEN Panic
        ELSE IF p.clkch THEN [gts |-> reset(lowered), current_offset |-> offset_now]
        ELSE IF p.wrap THEN [gts |-> [lowered EXCEPT !.upper = None],
                             current_offset |-> offset_now]
        ELSE [gts |-> lowered, current_offset |-> apply_gts(lowered, offset_now, opts)]

\* The Gts and current_offset after a GlobalTimestamp1 { ts, wrap, clkch },
\* or the panic of replace_lower.
apply_gts1(g, offset_now, p, opts, overflow_checks) ==
    LET lowered == replace_lower(g, p.ts, overflow_checks)
    IN  IF lowered = Panic THEN Panic
        ELSE IF p.wrap THEN [gts |-> [lowered EXCEPT !.upper = None],
                             current_offset |-> offset_now]
        ELSE IF p.clkch THEN [gts |-> reset(lowered), current_offset |-> offset_now]
        ELSE [gts |-> lowered, current_offset |-> apply_gts(lowered, offset_now, opts)]

\* The Gts and current_offset after a GlobalTimestamp2 { ts }.
apply_gts2(g, offset_now, p, opts) ==
    LET raised == [g EXCEPT !.upper = Some(p.ts)]
    IN  [gts |-> raised, current_offset |-> apply_gts(raised, offset_now, opts)]

\* A faulty arm that does not count the packet; C25_ConsumedCount rejects
\* it.
ApplyGts1_uncounted ==
    \E p \in GlobalTimestamp1Packets, overflow_checks \in BOOLEAN :
        LET after == apply_gts1(gts, current_offset, p, options, overflow_checks)
        IN  /\ Turn([tag |-> "Ok", packet |-> p])
            /\ IF after = Panic
               THEN /\ pc' = "panicked"
                    /\ UNCHANGED <<engine, locals, ret, item, groups, closed_at>>
               ELSE /\ gts' = after.gts
                    /\ current_offset' = after.current_offset
                    /\ UNCHANGED <<prev_lts, pc, locals, ret, item, groups, closed_at>>

\* TracePacket::GlobalTimestamp1 { ts, wrap, clkch }
ApplyGts1 ==
    \E p \in GlobalTimestamp1Packets, overflow_checks \in BOOLEAN :
        LET after == apply_gts1(gts, current_offset, p, options, overflow_checks)
        IN  /\ Turn([tag |-> "Ok", packet |-> p])
            /\ IF after = Panic
               THEN /\ pc' = "panicked"
                    /\ UNCHANGED <<engine, locals, ret, item, groups, closed_at>>
               ELSE /\ gts' = after.gts
                    /\ current_offset' = after.current_offset
                    /\ consumed_packets' = consumed_packets + 1
                    /\ UNCHANGED <<prev_lts, pc, packets, malformed_packets, ret, item,
                                   groups, closed_at>>

\* A faulty arm that also lists the global timestamp among the packets;
\* C5_GtsStays rejects it.
ApplyGts2_pushes ==
    \E p \in GlobalTimestamp2Packets :
        /\ Turn([tag |-> "Ok", packet |-> p])
        /\ gts' = apply_gts2(gts, current_offset, p, options).gts
        /\ current_offset' = apply_gts2(gts, current_offset, p, options).current_offset
        /\ consumed_packets' = consumed_packets + 1
        /\ packets' = Append(packets, p)
        /\ UNCHANGED <<prev_lts, pc, malformed_packets, ret, item, groups, closed_at>>

\* A faulty arm that moves prev_lts along with the merged time;
\* C21_PrevOfPrevious rejects it.
ApplyGts2_moves_prev ==
    \E p \in GlobalTimestamp2Packets :
        /\ Turn([tag |-> "Ok", packet |-> p])
        /\ gts' = apply_gts2(gts, current_offset, p, options).gts
        /\ current_offset' = apply_gts2(gts, current_offset, p, options).current_offset
        /\ prev_lts' = current_offset'
        /\ consumed_packets' = consumed_packets + 1
        /\ UNCHANGED <<pc, packets, malformed_packets, ret, item, groups, closed_at>>

\* TracePacket::GlobalTimestamp2 { ts }
ApplyGts2 ==
    \E p \in GlobalTimestamp2Packets :
        /\ Turn([tag |-> "Ok", packet |-> p])
        /\ gts' = apply_gts2(gts, current_offset, p, options).gts
        /\ current_offset' = apply_gts2(gts, current_offset, p, options).current_offset
        /\ consumed_packets' = consumed_packets + 1
        /\ UNCHANGED <<prev_lts, pc, packets, malformed_packets, ret, item, groups,
                       closed_at>>

\* A faulty arm that puts the packet in front of the earlier ones;
\* C18_Ordering rejects it.
PushPacket_prepends ==
    \E p \in DataPackets :
        /\ Turn([tag |-> "Ok", packet |-> p])
        /\ packets' = <<p>> \o packets
        /\ consumed_packets' = consumed_packets + 1
        /\ UNCHANGED <<engine, pc, malformed_packets, ret, item, groups, closed_at>>

\* A faulty arm that clears prev_lts; C24_Frame rejects it.
PushPacket_clears_prev ==
    \E p \in DataPackets :
        /\ Turn([tag |-> "Ok", packet |-> p])
        /\ packets' = Append(packets, p)
        /\ consumed_packets' = consumed_packets + 1
        /\ prev_lts' = DurationZero
        /\ UNCHANGED <<current_offset, gts, pc, malformed_packets, ret, item, groups,
                       closed_at>>

\* packet => packets.push(packet)
PushPacket ==
    \E p \in DataPackets :
        /\ Turn([tag |-> "Ok", packet |-> p])
        /\ packets' = Append(packets, p)
        /\ consumed_packets' = consumed_packets + 1
        /\ UNCHANGED <<engine, pc, malformed_packets, ret, item, groups, closed_at>>

Next ==
    \/ SinglesNext
    \/ Call
    \/ TolerateMalformed
    \/ ReturnErr
    \/ CloseLts1
    \/ CloseLts2
    \/ ApplyGts1
    \/ ApplyGts2
    \/ PushPacket

Spec == Init /\ [][Next]_vars

\* -------------------------------------------------------------- cortex_m

\* Exception
Exceptions ==
    {"NonMaskableInt", "HardFault", "MemoryManagement", "BusFault", "UsageFault",
     "SecureFault", "SVCall", "DebugMonitor", "PendSV", "SysTick"}

\* VectActive
ThreadMode == [tag |-> "ThreadMode"]
Exception(e) == [tag |-> "Exception", e |-> e]
Interrupt(n) == [tag |-> "Interrupt", irqn |-> n]

\* A faulty table that takes vector 512 for an interrupt too;
\* C20_VectorTable rejects it.
from_through_512(vect_active) ==
    CASE vect_active = 0 -> Some(ThreadMode)
      [] vect_active = 2 -> Some(Exception("NonMaskableInt"))
      [] vect_active = 3 -> Some(Exception("HardFault"))
      [] vect_active = 4 -> Some(Exception("MemoryManagement"))
      [] vect_active = 5 -> Some(Exception("BusFault"))
      [] vect_active = 6 -> Some(Exception("UsageFault"))
      [] vect_active = 7 -> Some(Exception("SecureFault"))
      [] vect_active = 11 -> Some(Exception("SVCall"))
      [] vect_active = 12 -> Some(Exception("DebugMonitor"))
      [] vect_active = 14 -> Some(Exception("PendSV"))
      [] vect_active = 15 -> Some(Exception("SysTick"))
      [] vect_active \in 16..512 -> Some(Interrupt(vect_active - 16))
      [] OTHER -> None

\* VectActive::from
from(vect_active) ==
    CASE vect_active = 0 -> Some(ThreadMode)
      [] vect_active = 2 -> Some(Exception("NonMaskableInt"))
      [] vect_active = 3 -> Some(Exception("HardFault"))
      [] vect_active = 4 -> Some(Exception("MemoryManagement"))
      [] vect_active = 5 -> Some(Exception("BusFault"))
      [] vect_active = 6 -> Some(Exception("UsageFault"))
      [] vect_active = 7 -> Some(Exception("SecureFault"))
      [] vect_active = 11 -> Some(Exception("SVCall"))
      [] vect_active = 12 -> Some(Exception("DebugMonitor"))
      [] vect_active = 14 -> Some(Exception("PendSV"))
      [] vect_active = 15 -> Some(Exception("SysTick"))
      [] vect_active \in 16..511 -> Some(Interrupt(vect_active - 16))
      [] OTHER -> None

\* A faulty table that gives SVCall the number of DebugMonitor;
\* C19_RoundTrip rejects it.
irqn_svcall_slip(self) ==
    CASE self = "NonMaskableInt" -> -14
      [] self = "HardFault" -> -13
      [] self = "MemoryManagement" -> -12
      [] self = "BusFault" -> -11
      [] self = "UsageFault" -> -10
      [] self = "SecureFault" -> -9
      [] self = "SVCall" -> -4
      [] self = "DebugMonitor" -> -4
      [] self = "PendSV" -> -2
      [] self = "SysTick" -> -1

\* Exception::irqn
irqn(self) ==
    CASE self = "NonMaskableInt" -> -14
      [] self = "HardFault" -> -13
      [] self = "MemoryManagement" -> -12
      [] self = "BusFault" -> -11
      [] self = "UsageFault" -> -10
      [] self = "SecureFault" -> -9
      [] self = "SVCall" -> -5
      [] self = "DebugMonitor" -> -4
      [] self = "PendSV" -> -2
      [] self = "SysTick" -> -1

\* `n as u16` of an integer of a narrower or signed type.
AsU16(n) == n % 65536

\* ------------------------------------------------ functions called alone
\* The pure functions of the crate, each called once with arguments drawn
\* from the sets below.

\* Every TimestampsConfiguration of a few frequencies.
AllConfigurations ==
    [clock_frequency : {16000000, 1000003, 0},
     lts_prescaler : Prescalers \cup {"Disabled"},
     expect_malformed : BOOLEAN]

NewCalls == [fn : {"new"}, options : AllConfigurations]

\* Ticks of local timestamps (at most 27 bits) with every prescaler and ticks
\* of merged global timestamps (up to 64 bits) with none.
LtsTickSamples == {1, 3, 6, 246, 1000, 78889570, 134217727}
GtsTickSamples ==
    {<<1>>, ShiftLeft(<<1>>, 26) \o <<>>, BitOr(ShiftLeft(<<1>>, 26), <<1>>),
     BitOr(ShiftLeft(<<1>>, 53), <<1>>), [i \in 1..U64Bits |-> 1]}

CalcOffsetCalls ==
    [fn : {"calc_offset"}, ts : {ToBits(t) : t \in LtsTickSamples},
     prescaler : Prescalers, freq : {16000000, 1000003, 0}]
        \cup [fn : {"calc_offset"}, ts : GtsTickSamples,
              prescaler : {"None"}, freq : {16000000, 1000003, 0}]

\* Prior lower halves and updates of every width from 0 to 64 bits.
LowerSamples ==
    {None, Some(<<1>>), Some(ToBits(42)), Some(BitOr(ShiftLeft(<<1>>, 26), <<1>>)),
     Some([i \in 1..U64Bits |-> 1])}
UpdateSamples ==
    {<<>>, <<1>>, ToBits(107), ToBits(127), ShiftLeft(<<1>>, 25),
     ShiftLeft(<<1>>, 62), ShiftLeft(<<1>>, 63)}

ReplaceLowerCalls ==
    [fn : {"replace_lower"}, lower : LowerSamples, upper : {None, Some(<<1>>)},
     new : UpdateSamples, overflow_checks : BOOLEAN]

\* Gts halves for merge, up to 64 bits wide: an upper half with bits that
\* the shift by 26 pushes out of the u64, a lower half with bits at position
\* 26 and above.
MergeLowerSamples ==
    {None, Some(<<1>>), Some(ToBits(42)), Some(BitOr(ShiftLeft(<<1>>, 26), <<1>>)),
     Some([i \in 1..U64Bits |-> 1])}
MergeUpperSamples ==
    {None, Some(<<1>>), Some(ToBits(42)), Some(ShiftLeft(<<1>>, 38)),
     Some(BitOr(ShiftLeft(<<1>>, 37), <<1>>)), Some([i \in 1..U64Bits |-> 1])}

MergeCalls == [fn : {"merge"}, lower : MergeLowerSamples, upper : MergeUpperSamples]

\* Gts halves, a current_offset and options for apply_gts.
ApplyGtsCalls ==
    [fn : {"apply_gts"},
     lower : {None, Some(<<1>>), Some(<<1, 0>>)},
     upper : {None, Some(<<1>>)},
     current_offset : {DurationZero, DurationFromNanos(ToBits(375))},
     options : {c \in AllConfigurations :
                   /\ c.clock_frequency = 16000000
                   /\ c.lts_prescaler \in {"Enabled", "EnabledDiv64"}
                   /\ ~c.expect_malformed}]

\* Every u16.
FromCalls == [fn : {"from"}, vect_active : 0..65535]

IrqnCalls == [fn : {"irqn"}, self : Exceptions]

FunctionCalls ==
    NewCalls \cup CalcOffsetCalls \cup ReplaceLowerCalls \cup MergeCalls
        \cup ApplyGtsCalls \cup FromCalls \cup IrqnCalls

FunctionsInit ==
    /\ call \in FunctionCalls
    /\ result = NotCalled
    /\ mode = "functions"
    /\ options = CHOOSE c \in Configurations : TRUE
    /\ served = <<>>
    /\ current_offset = DurationZero
    /\ prev_lts = DurationZero
    /\ gts = [lower |-> None, upper |-> None]
    /\ pc = "idle"
    /\ packets = <<>>
    /\ malformed_packets = <<>>
    /\ consumed_packets = 0
    /\ ret = NotCalled
    /\ item = NotCalled
    /\ groups = <<>>
    /\ closed_at = <<>>
    /\ offset_table = <<>>

\* What a call gave back.
Gave(value) == [tag |-> "Gave", value |-> value]

Returns(value) ==
    /\ result.tag = "NotCalled"
    /\ result' = Gave(value)
    /\ UNCHANGED <<mode, options, served, engine, pc, locals, ret, item, groups,
                   closed_at, offset_table, call>>

CallNew == call.fn = "new" /\ Returns(new(call.options))

CallCalcOffset ==
    call.fn = "calc_offset" /\ Returns(calc_offset(call.ts, call.prescaler, call.freq))

CallReplaceLower ==
    /\ call.fn = "replace_lower"
    /\ Returns(replace_lower([lower |-> call.lower, upper |-> call.upper],
                             call.new, call.overflow_checks))

CallMerge ==
    call.fn = "merge" /\ Returns(merge([lower |-> call.lower, upper |-> call.upper]))

CallApplyGts ==
    /\ call.fn = "apply_gts"
    /\ Returns(apply_gts([lower |-> call.lower, upper |-> call.upper],
                         call.current_offset, call.options))

CallFrom == call.fn = "from" /\ Returns(from(call.vect_active))

CallIrqn == call.fn = "irqn" /\ Returns(irqn(call.self))

FunctionsNext ==
    \/ CallNew
    \/ CallCalcOffset
    \/ CallReplaceLower
    \/ CallMerge
    \/ CallApplyGts
    \/ CallFrom
    \/ CallIrqn

FunctionsSpec == FunctionsInit /\ [][FunctionsNext]_vars

\* ------------------------------------------------------- reading the logs

IsLts(p) == p.type \in {"LocalTimestamp1", "LocalTimestamp2"}
IsGts(p) == p.type \in {"GlobalTimestamp1", "GlobalTimestamp2"}

IsOkLts(r) == r.tag = "Ok" /\ IsLts(r.packet)
IsOkGts(r) == r.tag = "Ok" /\ IsGts(r.packet)
IsOkData(r) == r.tag = "Ok" /\ ~IsLts(r.packet) /\ ~IsGts(r.packet)

\* The decoder was asked in this step, and Answer is what it returned.
Asked == Len(served') = Len(served) + 1
Answer == served'[Len(served')]

\* A call of next_timestamped returned in this step.
Returned == pc = "loop" /\ pc' = "idle"

\* The non-timestamp packets the decoder has returned, in order.
RECURSIVE PacketsOf(_)
PacketsOf(log) ==
    IF Len(log) = 0 THEN <<>>
    ELSE LET before == PacketsOf(SubSeq(log, 1, Len(log) - 1))
             r      == log[Len(log)]
         IN  IF IsOkData(r) THEN Append(before, r.packet) ELSE before

\* The `packets` lists of the groups, one after the other.
RECURSIVE Concatenated(_)
Concatenated(gs) ==
    IF Len(gs) = 0 THEN <<>>
    ELSE Concatenated(SubSeq(gs, 1, Len(gs) - 1)) \o gs[Len(gs)].packets

RECURSIVE SumConsumed(_)
SumConsumed(gs) ==
    IF Len(gs) = 0 THEN 0
    ELSE SumConsumed(SubSeq(gs, 1, Len(gs) - 1)) + gs[Len(gs)].consumed_packets

\* The calls of next_single that returned a packet, or a malformed marker
\* that the configuration tolerates.
PacketsServed ==
    Cardinality({k \in 1..Len(served) :
        \/ served[k].tag = "Ok"
        \/ served[k].tag = "MalformedPacket" /\ options.expect_malformed})


GtsBetween(i, j) ==
    \E k \in (closed_at[i] + 1)..(closed_at[j] - 1) : IsOkGts(served[k])

\* ---------------------------------------------------------------- claims

\* C1 (as claimed): between two calls of next_group, every non-timestamp
\* packet the decoder has returned so far is in the `packets` list of exactly
\* one emitted group, in input order; packets read in a call that ended with
\* Eof or an error are not excepted.
C1_NoLoss ==
    (mode = "timestamps" /\ pc = "idle") => Concatenated(groups) = PacketsOf(served)

\* C2 (as claimed): between two calls of next_group, the consumed_packets of
\* the emitted groups add up to the number of next_single calls that the
\* decoder served with a packet or a tolerated malformed marker.
C2_Conservation ==
    (mode = "timestamps" /\ pc = "idle") => SumConsumed(groups) = PacketsServed

\* C3: of two groups emitted one after the other with no global timestamp
\* consumed between them, the later one's current time is not earlier.
C3_Monotonic ==
    \A i \in 1..(Len(groups) - 1) :
        ~GtsBetween(i, i + 1) =>
            DurationLe(groups[i].timestamp.curr, groups[i + 1].timestamp.curr)

C3_Witness ==
    /\ Len(groups) >= 2
    /\ ~GtsBetween(1, 2)
    /\ groups[1].timestamp.curr # groups[2].timestamp.curr
    /\ groups[2].timestamp.curr.nanos > 0

\* The Timestamp that a local timestamp with this data_relation must give.
StampFor(data_relation, prev, curr) ==
    CASE data_relation = "Sync" -> [kind |-> "Sync", curr |-> curr]
      [] data_relation = "AssocEventDelay" -> [kind |-> "AssocEventDelay", curr |-> curr]
      [] data_relation = "UnknownDelay" ->
            [kind |-> "UnknownDelay", prev |-> prev, curr |-> curr]
      [] data_relation = "UnknownAssocEventDelay" ->
            [kind |-> "UnknownAssocEventDelay", prev |-> prev, curr |-> curr]

RelationOf(p) == IF p.type = "LocalTimestamp2" THEN "Sync" ELSE p.data_relation

\* C4: a group is returned exactly in the step in which the decoder returns
\* a local timestamp, and its Timestamp is the variant that packet's
\* data_relation prescribes (Sync for a LocalTimestamp2), made of prev_lts as
\* it was before and current_offset as it is after the packet.
C4_ClosedByLts ==
    [][ /\ (Len(groups') # Len(groups)) =>
            /\ Asked /\ IsOkLts(Answer)
            /\ groups' = Append(groups, groups'[Len(groups')])
            /\ groups'[Len(groups')].timestamp =
                   StampFor(RelationOf(Answer.packet), prev_lts, current_offset')
        /\ (mode = "timestamps" /\ Asked /\ IsOkLts(Answer)) =>
               Len(groups') = Len(groups) + 1 ]_vars

C4_Witness ==
    /\ Len(groups) >= 2
    /\ served[closed_at[2]].packet.type = "LocalTimestamp1"
    /\ groups[2].timestamp.kind = "UnknownAssocEventDelay"
    /\ groups[2].timestamp.prev = groups[1].timestamp.curr
    /\ groups[2].timestamp.prev # groups[2].timestamp.curr

\* C5: the step that consumes a global timestamp returns nothing and leaves
\* the buffers alone, the call goes on reading, and no emitted group lists a
\* global timestamp among its packets.
C5_GtsStays ==
    /\ [][(mode = "timestamps" /\ Asked /\ IsOkGts(Answer)) =>
            /\ pc' = "loop"
            /\ UNCHANGED <<groups, ret, item, packets, malformed_packets>>]_vars
    /\ [](\A i \in 1..Len(groups) :
            \A k \in 1..Len(groups[i].packets) : ~IsGts(groups[i].packets[k]))

C5_Witness ==
    /\ Len(groups) = 1
    /\ Len(groups[1].packets) = 1
    /\ \E k \in 1..(closed_at[1] - 1) : IsOkGts(served[k])
\* The item an iterator must yield for what the decoder returned; `val` is
\* the packet or the group that was produced.
ItemFor(r, val) ==
    CASE r.tag = "Eof" -> [tag |-> "None"]
      [] r.tag = "Io" -> [tag |-> "Some", res |-> "Err", err |-> ErrIo]
      [] r.tag = "MalformedPacket" -> [tag |-> "Some", res |-> "Err", err |-> r]
      [] r.tag = "Ok" -> [tag |-> "Some", res |-> "Ok", val |-> val]

\* The decoder has returned data or a marker since the last group was closed.
Accumulated ==
    \E k \in (IF Len(closed_at) = 0 THEN 1 ELSE closed_at[Len(closed_at)] + 1)..Len(served) :
        IsOkData(served[k]) \/ served[k].tag = "MalformedPacket"

\* C6: when the decoder returns Eof the call returns Eof and emits no group,
\* whatever the call had accumulated; on a stream that is Eof from the start
\* no group is ever emitted.
C6_EofEmitsNothing ==
    /\ [][(mode = "timestamps" /\ Asked /\ Answer = ErrEof) =>
            /\ Returned
            /\ ret' = ErrEof
            /\ groups' = groups]_vars
    /\ []((mode = "timestamps" /\ \A k \in 1..Len(served) : served[k] = ErrEof) =>
            groups = <<>> /\ ret \in {NotCalled, ErrEof})

C6_Witness ==
    /\ mode = "timestamps"
    /\ pc = "idle"
    /\ ret = ErrEof
    /\ served[Len(served)] = ErrEof
    /\ Accumulated

\* C7: without expect_malformed a Malformed result ends the call with that
\* error; an Io result ends the call with that error under either setting;
\* neither call emits a group.
C7_ErrorsReturned ==
    [][(mode = "timestamps" /\ Asked /\
            (Answer = ErrIo \/ (Answer.tag = "MalformedPacket" /\ ~options.expect_malformed))) =>
          /\ Returned
          /\ ret' = Answer
          /\ groups' = groups]_vars

C7_Witness ==
    /\ mode = "timestamps"
    /\ pc = "idle"
    /\ ret.tag = "MalformedPacket"
    /\ \E k \in 1..(Len(served) - 1) : IsOkData(served[k])

\* C8: with expect_malformed no call returns a Malformed error; a malformed
\* result is appended to malformed_packets and the call reads on; the group
\* the next local timestamp closes carries the data and the markers gathered
\* so far, in order.
C8_MalformedTolerated ==
    /\ [](options.expect_malformed => ret.tag # "MalformedPacket")
    /\ [][(mode = "timestamps" /\ options.expect_malformed /\ Asked) =>
            /\ Answer.tag = "MalformedPacket" =>
                  /\ malformed_packets' = Append(malformed_packets, Answer.m)
                  /\ pc' = "loop"
                  /\ UNCHANGED <<packets, groups, ret, item>>
            /\ IsOkLts(Answer) =>
                  /\ groups'[Len(groups')].packets = packets
                  /\ groups'[Len(groups')].malformed_packets = malformed_packets]_vars

C8_Witness ==
    /\ options.expect_malformed
    /\ Len(groups) = 1
    /\ Len(groups[1].packets) = 2
    /\ Len(groups[1].malformed_packets) = 1
    /\ served[2].tag = "MalformedPacket"
    /\ served[4].packet.type = "LocalTimestamp1"
    /\ ret = [tag |-> "Ok", group |-> groups[1]]

\* C9: an Io error is returned to the caller and leaves current_offset,
\* prev_lts and the global-timestamp state as they were; the engine can be
\* called again.
C9_IoLeavesEngine ==
    /\ [][(mode = "timestamps" /\ Asked /\ Answer = ErrIo) =>
            /\ ret' = ErrIo
            /\ pc' = "idle"
            /\ UNCHANGED <<current_offset, prev_lts, gts>>]_vars
    /\ []((mode = "timestamps" /\ pc = "idle" /\ ret = ErrIo /\ Len(served) < MaxCalls) =>
            ENABLED Call)

\* A group with a later time is emitted by a call after one that failed.
C9_Witness ==
    /\ Len(groups) = 2
    /\ \E k \in (closed_at[1] + 1)..(closed_at[2] - 1) : served[k] = ErrIo
    /\ groups[2].timestamp.kind = "UnknownDelay"
    /\ groups[2].timestamp.prev = groups[1].timestamp.curr
    /\ ret = [tag |-> "Ok", group |-> groups[2]]

\* C10: Singles::next and Timestamps::next yield None exactly when the
\* decoder returned Eof, Some(Err(Io)) and Some(Err(MalformedPacket)) for the
\* errors that are passed on, Some(Ok(..)) for a packet or a group; after an
\* error item the iterator can be asked again.
C10_IteratorItems ==
    /\ [][ /\ (mode = "singles" /\ Asked) =>
                item' = ItemFor(Answer, IF Answer.tag = "Ok" THEN Answer.packet ELSE None)
           /\ Returned =>
                /\ Asked
                /\ item' = ItemFor(Answer, groups'[Len(groups')])
           /\ (mode = "timestamps" /\ ~Returned) => item' = item ]_vars
    /\ []((pc = "idle" /\ item.tag = "Some" /\ Len(served) < MaxCalls) =>
            IF mode = "singles" THEN ENABLED SinglesNext ELSE ENABLED Call)

C10_Witness ==
    /\ mode = "singles"
    /\ Len(served) = MaxCalls
    /\ served[1] = ErrIo
    /\ served[2].tag = "MalformedPacket"
    /\ served[3].tag = "Ok"
    /\ served[4] = ErrEof
    /\ item = [tag |-> "None"]
\* C11: Timestamps::new panics for every configuration whose lts_prescaler
\* is Disabled, so that no engine with a Disabled prescaler is ever there to
\* be called, and for no other configuration.
C11_DisabledRefused ==
    mode = "timestamps" =>
        /\ options.lts_prescaler = "Disabled" =>
              pc = "panicked" /\ served = <<>> /\ item = NotCalled
        /\ options.lts_prescaler # "Disabled" => Len(served) > 0 \/ pc \in {"idle", "loop"}

C11_Witness ==
    /\ mode = "timestamps"
    /\ options.lts_prescaler = "Disabled"
    /\ options.clock_frequency = 16000000
    /\ options.expect_malformed
    /\ pc = "panicked"

\* C12: Timestamps::new refuses a configuration whose clock_frequency is 0.
C12_ZeroFrequencyRefused ==
    (call.fn = "new" /\ result.tag = "Gave" /\ call.options.clock_frequency = 0) =>
        result.value = Panic

\* ceil(ts * p * 10^9 / f), in whole nanoseconds, by exact integer
\* arithmetic: 10^9 = 5^9 * 2^9.
ExactCeilNanos(ts, prescaler, freq) ==
    LET ticks == MulAddSmall(ts, Prescale(prescaler), 0)
        qr    == DivSmall(ShiftLeft(MulAddSmall(ticks, 1953125, 0), 9), freq)
    IN  IF qr.r = 0 THEN qr.q ELSE AddBits(qr.q, <<>>, 1)

\* C13: every local timestamp with raw ticks ts adds exactly
\* ceil(ts * p * 10^9 / f) nanoseconds to current_offset.
C13_ExactCeiling ==
    [][ (mode = "timestamps" /\ Asked /\ IsOkLts(Answer)) =>
            current_offset' =
                DurationAdd(current_offset,
                            DurationFromNanos(ExactCeilNanos(ToBits(Answer.packet.ts),
                                                             options.lts_prescaler,
                                                             options.clock_frequency))) ]_vars

\* C14: no duration calc_offset gives is shorter than ticks * prescale /
\* frequency seconds, the exact rational, whatever the ticks (up to 27 bits
\* with a prescaler, up to 64 bits without).
C14_NeverEarly ==
    (call.fn = "calc_offset" /\ result.tag = "Gave" /\ call.freq # 0) =>
        DurationLe(DurationFromNanos(ExactCeilNanos(call.ts, call.prescaler, call.freq)),
                   result.value)

\* L & ~((1 << w) - 1): the bits of L from bit w upwards.
ClearLow(L, w) == IF Len(L) <= w THEN <<>> ELSE SubSeq(L, 1, Len(L) - w) \o Zeros(w)

\* C15: for every prior lower L and every update n of width w, 0 <= w <= 64,
\* replace_lower(n) completes and leaves lower = (L & ~((1 << w) - 1)) | n;
\* with no prior lower it leaves n.
C15_ReplaceLower ==
    (call.fn = "replace_lower" /\ result.tag = "Gave") =>
        /\ result.value # Panic
        /\ result.value.lower =
              Some(IF IsSome(call.lower)
                   THEN BitOr(ClearLow(Unwrap(call.lower), Len(call.new)), call.new)
                   ELSE call.new)

\* The decoder returned a GlobalTimestamp1 with clkch set in this step, and
\* replace_lower did not panic on it.
ServedClockChange ==
    /\ mode = "timestamps"
    /\ Asked
    /\ Answer.tag = "Ok"
    /\ Answer.packet.type = "GlobalTimestamp1"
    /\ Answer.packet.clkch
    /\ pc' # "panicked"

\* C16 (as claimed): after any GlobalTimestamp1 with clkch set, whatever its
\* wrap flag and ts, both gts.lower and gts.upper are None.
C16_ClockChangeAlwaysResets ==
    [][ ServedClockChange => gts' = [lower |-> None, upper |-> None] ]_vars

\* C16 (amended): after a GlobalTimestamp1 with clkch set and wrap clear,
\* whatever its ts, both gts.lower and gts.upper are None; with wrap set as
\* well, only gts.upper is cleared.
C16_ClockChange ==
    [][ ServedClockChange =>
            IF Answer.packet.wrap
            THEN gts'.upper = None /\ IsSome(gts'.lower)
            ELSE gts' = [lower |-> None, upper |-> None] ]_vars

C16_Witness ==
    /\ mode = "timestamps"
    /\ Len(served) = 3
    /\ served[1] = [tag |-> "Ok", packet |-> [type |-> "GlobalTimestamp2", ts |-> <<1>>]]
    /\ served[2] = [tag |-> "Ok", packet |-> [type |-> "GlobalTimestamp1", ts |-> <<1>>,
                                              wrap |-> FALSE, clkch |-> FALSE]]
    /\ served[3] = [tag |-> "Ok", packet |-> [type |-> "GlobalTimestamp1", ts |-> <<1>>,
                                              wrap |-> FALSE, clkch |-> TRUE]]
    /\ gts = [lower |-> None, upper |-> None]

\* Group i consumed exactly a GlobalTimestamp1 with ts 1 and no flag, a
\* GlobalTimestamp2 with ts 1 and a LocalTimestamp2 with the given ts, at
\* 16 MHz with the prescaler Enabled.
GtsCompressionGroup(i, ts) ==
    LET k == closed_at[i]
    IN  /\ options.clock_frequency = 16000000
        /\ options.lts_prescaler = "Enabled"
        /\ groups[i].consumed_packets = 3
        /\ k >= 3
        /\ served[k - 2] = [tag |-> "Ok",
                            packet |-> [type |-> "GlobalTimestamp1", ts |-> <<1>>,
                                        wrap |-> FALSE, clkch |-> FALSE]]
        /\ served[k - 1] = [tag |-> "Ok",
                            packet |-> [type |-> "GlobalTimestamp2", ts |-> <<1>>]]
        /\ served[k] = [tag |-> "Ok", packet |-> [type |-> "LocalTimestamp2", ts |-> ts]]

\* 4_194_304_438 ns
GtsCompressionStamp == [kind |-> "Sync", curr |-> [secs |-> ToBits(4), nanos |-> 194304438]]

\* C17 (as claimed): the group that consumes GTS1(1), GTS2(1) and LTS2 with
\* ts = 3 has the timestamp Sync(4_194_304_438 ns).
C17_GtsCompressionTs3 ==
    mode = "timestamps" =>
        \A i \in 1..Len(groups) :
            GtsCompressionGroup(i, 3) => groups[i].timestamp = GtsCompressionStamp

\* C17 (amended): the group that consumes GTS1(1), GTS2(1) and LTS2 with
\* ts = 6 has the timestamp Sync(4_194_304_438 ns), which is
\* ceil(((1 << 26) | 1) / 16e6 * 1e9) + 375.
C17_GtsCompression ==
    mode = "timestamps" =>
        \A i \in 1..Len(groups) :
            GtsCompressionGroup(i, 6) =>
                /\ groups[i].timestamp = GtsCompressionStamp
                /\ GtsCompressionStamp.curr =
                      DurationAdd(DurationFromNanos(ExactCeilNanos(
                                      BitOr(ShiftLeft(<<1>>, 26), <<1>>), "None", 16000000)),
                                  DurationFromNanos(ToBits(375)))

C17_Witness ==
    /\ mode = "timestamps"
    /\ Len(groups) = 1
    /\ Len(served) = 3
    /\ GtsCompressionGroup(1, 6)

\* a can be had from b by leaving elements out, the rest staying in order.
RECURSIVE IsSubsequence(_, _)
IsSubsequence(a, b) ==
    IF Len(a) = 0 THEN TRUE
    ELSE IF Len(b) = 0 THEN FALSE
    ELSE IF a[1] = b[1] THEN IsSubsequence(Tail(a), Tail(b))
    ELSE IsSubsequence(a, Tail(b))

\* C18: the packets lists of the emitted groups, one after the other, are a
\* subsequence of the decoder's output in the same order, and the packets of
\* each group were decoded, in the order listed, after the local timestamp
\* that closed the previous group and before the one that closes it.
C18_Ordering ==
    mode = "timestamps" =>
        /\ IsSubsequence(Concatenated(groups), PacketsOf(served))
        /\ \A i \in 1..Len(groups) :
              LET first == IF i = 1 THEN 1 ELSE closed_at[i - 1] + 1
                  last  == closed_at[i] - 1
              IN  /\ first <= closed_at[i]
                  /\ IsOkLts(served[closed_at[i]])
                  /\ IsSubsequence(groups[i].packets,
                                   PacketsOf(SubSeq(served, first, last)))

C18_Witness ==
    /\ mode = "timestamps"
    /\ Len(groups) = 2
    /\ groups[1].packets = <<[type |-> "Overflow"], [type |-> "PCSample"]>>
    /\ groups[2].packets = <<>>

\* C19: for every Exception e, VectActive::from((e.irqn() + 16) as u16) is
\* VectActive::Exception(e), and no two exceptions have the same irqn().
C19_RoundTrip ==
    /\ (call.fn = "irqn" /\ result.tag = "Gave") =>
            from(AsU16(result.value + 16)) = Some(Exception(call.self))
    /\ \A a, b \in Exceptions : irqn(a) = irqn(b) => a = b

C19_Witness ==
    /\ call = [fn |-> "irqn", self |-> "SVCall"]
    /\ result = Gave(-5)

\* The exceptions of ARMv7-M by vector number.
NamedVectors ==
    2 :> "NonMaskableInt" @@ 3 :> "HardFault" @@ 4 :> "MemoryManagement"
      @@ 5 :> "BusFault" @@ 6 :> "UsageFault" @@ 7 :> "SecureFault"
      @@ 11 :> "SVCall" @@ 12 :> "DebugMonitor" @@ 14 :> "PendSV" @@ 15 :> "SysTick"

\* C20: VectActive::from(n), for every u16 n, is ThreadMode for 0, the named
\* exception for 2..7, 11, 12, 14 and 15, Interrupt { irqn: n - 16 } for
\* 16 <= n <= 511 and None for every other n; an Interrupt's irqn is in
\* [0, 512) and every Exception::irqn() is in [-14, -1].
C20_VectorTable ==
    /\ (call.fn = "from" /\ result.tag = "Gave") =>
          LET n == call.vect_active
          IN  /\ result.value =
                    IF n = 0 THEN Some(ThreadMode)
                    ELSE IF n \in DOMAIN NamedVectors THEN Some(Exception(NamedVectors[n]))
                    ELSE IF 16 <= n /\ n <= 511 THEN Some(Interrupt(n - 16))
                    ELSE None
              /\ (IsSome(result.value) /\ Unwrap(result.value).tag = "Interrupt") =>
                    Unwrap(result.value).irqn >= 0 /\ Unwrap(result.value).irqn < 512
    /\ (call.fn = "irqn" /\ result.tag = "Gave") =>
          result.value >= -14 /\ result.value <= -1

C20_Witness ==
    /\ call = [fn |-> "from", vect_active |-> 511]
    /\ result = Gave(Some(Interrupt(495)))

\* The Timestamp variants that carry a `prev`.
HasPrev(stamp) == stamp.kind \in {"UnknownDelay", "UnknownAssocEventDelay"}

\* C21: the prev of every emitted UnknownDelay or UnknownAssocEventDelay is
\* the current time of the group emitted just before it, and zero in the
\* first group, whatever global timestamps, errors or Eof came in between.
C21_PrevOfPrevious ==
    mode = "timestamps" =>
        \A i \in 1..Len(groups) :
            HasPrev(groups[i].timestamp) =>
                groups[i].timestamp.prev =
                    IF i = 1 THEN DurationZero ELSE groups[i - 1].timestamp.curr

\* A global timestamp merged between two groups sets the time back, and the
\* second group's prev is later than its curr.
C21_Witness ==
    /\ mode = "timestamps"
    /\ Len(groups) = 2
    /\ GtsBetween(1, 2)
    /\ HasPrev(groups[2].timestamp)
    /\ groups[2].timestamp.prev = groups[1].timestamp.curr
    /\ ~DurationLe(groups[2].timestamp.prev, groups[2].timestamp.curr)

\* The compressed overlay of an update n on a lower half: n replaces the
\* bits of the old value below its own width.
Overlay(lower, n) ==
    IF IsSome(lower) THEN BitOr(ClearLow(Unwrap(lower), Len(n)), n) ELSE n

\* The decoder returned a GlobalTimestamp1 in this step, and replace_lower
\* did not panic on it.
ServedGts1 ==
    /\ mode = "timestamps"
    /\ Asked
    /\ Answer.tag = "Ok"
    /\ Answer.packet.type = "GlobalTimestamp1"
    /\ pc' # "panicked"

\* C22: a GlobalTimestamp1 first overlays its ts on gts.lower; then with wrap
\* set it clears gts.upper only and leaves current_offset; else with clkch
\* set it clears both halves and leaves current_offset; else it merges the
\* halves and writes current_offset (which a missing upper half leaves as it
\* was).
C22_Gts1Order ==
    [][ ServedGts1 =>
            LET p       == Answer.packet
                lowered == Overlay(gts.lower, p.ts)
            IN  IF p.wrap
                THEN /\ gts' = [lower |-> Some(lowered), upper |-> None]
                     /\ current_offset' = current_offset
                ELSE IF p.clkch
                THEN /\ gts' = [lower |-> None, upper |-> None]
                     /\ current_offset' = current_offset
                ELSE /\ gts' = [lower |-> Some(lowered), upper |-> gts.upper]
                     /\ current_offset' =
                            IF IsSome(gts.upper)
                            THEN calc_offset_of(
                                     BitOr(ShiftLeft(Unwrap(gts.upper), GTS2_SHIFT), lowered),
                                     "None", options.clock_frequency)
                            ELSE current_offset ]_vars

C22_Witness ==
    /\ mode = "timestamps"
    /\ Len(served) = 3
    /\ served[1] = [tag |-> "Ok", packet |-> [type |-> "LocalTimestamp2", ts |-> 6]]
    /\ served[2] = [tag |-> "Ok", packet |-> [type |-> "GlobalTimestamp2", ts |-> <<1>>]]
    /\ served[3] = [tag |-> "Ok", packet |-> [type |-> "GlobalTimestamp1", ts |-> <<1>>,
                                              wrap |-> FALSE, clkch |-> FALSE]]
    /\ gts = [lower |-> Some(<<1>>), upper |-> Some(<<1>>)]
    /\ current_offset = [secs |-> ToBits(4), nanos |-> 194304063]

\* C23: apply_gts overwrites current_offset only when both halves are there,
\* and then with ceil(((upper << 26) | lower) * 10^9 / f) nanoseconds, with
\* no prescaler and whatever current_offset was; with a half missing it
\* leaves current_offset as it was.
C23_AbsoluteMerge ==
    (call.fn = "apply_gts" /\ result.tag = "Gave") =>
        result.value =
            IF IsSome(call.lower) /\ IsSome(call.upper)
            THEN DurationFromNanos(ExactCeilNanos(
                     BitOr(ShiftLeft(Unwrap(call.upper), 26), Unwrap(call.lower)),
                     "None", call.options.clock_frequency))
            ELSE call.current_offset

\* C24: prev_lts changes only in a step that serves a local timestamp; a
\* step that serves a data packet or a malformed marker changes none of
\* prev_lts, current_offset and the Gts halves.
C24_Frame ==
    [][ mode = "timestamps" =>
            /\ ~(Asked /\ IsOkLts(Answer)) => prev_lts' = prev_lts
            /\ (Asked /\ (IsOkData(Answer) \/ Answer.tag = "MalformedPacket")) =>
                    /\ prev_lts' = prev_lts
                    /\ current_offset' = current_offset
                    /\ gts' = gts ]_vars

C24_Witness ==
    /\ mode = "timestamps"
    /\ options.expect_malformed
    /\ Len(served) = 4
    /\ served[1] = [tag |-> "Ok", packet |-> [type |-> "LocalTimestamp2", ts |-> 3]]
    /\ served[2] = [tag |-> "Ok", packet |-> [type |-> "Overflow"]]
    /\ served[3] = [tag |-> "MalformedPacket", m |-> "m1"]
    /\ served[4] = [tag |-> "Ok", packet |-> [type |-> "GlobalTimestamp2", ts |-> <<1>>]]
    /\ prev_lts = DurationFromNanos(ToBits(188))
    /\ current_offset = prev_lts
    /\ gts = [lower |-> None, upper |-> Some(<<1>>)]

\* A result that makes next_timestamped return.
EndsCall(r) ==
    \/ IsOkLts(r)
    \/ r.tag \in {"Eof", "Io"}
    \/ r.tag = "MalformedPacket" /\ ~options.expect_malformed

\* The place in the log of the first result of the call that got result k.
CallStart(k) ==
    LET ends == {j \in 1..(k - 1) : EndsCall(served[j])}
    IN  IF ends = {} THEN 1 ELSE 1 + CHOOSE j \in ends : \A h \in ends : h <= j

\* The global timestamps consumed in the call that emitted group i.
GtsConsumed(i) ==
    Cardinality({k \in CallStart(closed_at[i])..closed_at[i] : IsOkGts(served[k])})

\* C25: the consumed_packets of every emitted group is the length of its
\* packets, plus that of its malformed_packets, plus the global timestamps
\* consumed in its call, plus one for the closing local timestamp; it counts
\* the results of that call alone, from zero.
C25_ConsumedCount ==
    mode = "timestamps" =>
        /\ \A i \in 1..Len(groups) :
              /\ groups[i].consumed_packets =
                    Len(groups[i].packets) + Len(groups[i].malformed_packets)
                        + GtsConsumed(i) + 1
              /\ groups[i].consumed_packets >= 1
              /\ groups[i].consumed_packets = closed_at[i] + 1 - CallStart(closed_at[i])
        /\ pc = "loop" => consumed_packets = Len(served) + 1 - CallStart(Len(served) + 1)

C25_Witness ==
    /\ mode = "timestamps"
    /\ Len(served) = 4
    /\ served[1] = ErrIo
    /\ Len(groups) = 1
    /\ Len(groups[1].malformed_packets) = 1
    /\ GtsConsumed(1) = 1
    /\ groups[1].consumed_packets = 3

\* The Gts halves and current_offset that the timestamp packets of a log
\* lead to when each is applied in turn, whichever call consumed it.
RECURSIVE EngineAfter(_)
EngineAfter(log) ==
    IF Len(log) = 0
    THEN [gts |-> [lower |-> None, upper |-> None], current_offset |-> DurationZero]
    ELSE LET before == EngineAfter(SubSeq(log, 1, Len(log) - 1))
             r      == log[Len(log)]
         IN  IF IsOkLts(r)
             THEN [gts |-> before.gts,
                   current_offset |->
                       DurationAdd(before.current_offset,
                                   calc_offset_of(ToBits(r.packet.ts), options.lts_prescaler,
                                                  options.clock_frequency))]
             ELSE IF IsOkGts(r)
             THEN IF r.packet.type = "GlobalTimestamp1"
                  THEN apply_gts1(before.gts, before.current_offset, r.packet, options, FALSE)
                  ELSE apply_gts2(before.gts, before.current_offset, r.packet, options)
             ELSE before

\* The malformed markers of a log.
MarkersOf(log) == SelectSeq(log, LAMBDA r : r.tag = "MalformedPacket")

\* C26: the Gts halves and current_offset are those that all the timestamp
\* packets served so far lead to, those consumed in calls that ended with Eof
\* or an error included, and so is the time of every emitted group; the
\* packets and malformed markers of a group are those of its own call alone.
C26_NoRollback ==
    (mode = "timestamps" /\ pc # "panicked") =>
        /\ [gts |-> gts, current_offset |-> current_offset] = EngineAfter(served)
        /\ \A i \in 1..Len(groups) :
              LET k    == closed_at[i]
                  mine == SubSeq(served, CallStart(k), k)
              IN  /\ groups[i].timestamp.curr = EngineAfter(SubSeq(served, 1, k)).current_offset
                  /\ groups[i].packets = PacketsOf(mine)
                  /\ Len(groups[i].malformed_packets) = Len(MarkersOf(mine))

\* A call consumes both halves of a global timestamp and fails; the next
\* call's group has the merged time.
C26_Witness ==
    /\ mode = "timestamps"
    /\ Len(served) = 4
    /\ IsOkGts(served[1])
    /\ IsOkGts(served[2])
    /\ served[3] = ErrIo
    /\ served[4] = [tag |-> "Ok", packet |-> [type |-> "LocalTimestamp2", ts |-> 6]]
    /\ Len(groups) = 1
    /\ groups[1].timestamp = GtsCompressionStamp
    /\ groups[1].consumed_packets = 1

\* b mod 2^64
ModU64(b) == IF Len(b) <= 64 THEN b ELSE Strip(SubSeq(b, Len(b) - 63, Len(b)))

\* C27: merge gives Some exactly when both halves are there, and then
\* ((upper * 2^26) mod 2^64) | lower, for halves of up to 64 bits: the top 26
\* bits of upper are dropped and nothing fails.
C27_MergeWraps ==
    (call.fn = "merge" /\ result.tag = "Gave") =>
        /\ IsSome(result.value) <=> (IsSome(call.lower) /\ IsSome(call.upper))
        /\ ~IsSome(result.value) => result.value = None
        /\ IsSome(result.value) =>
              Unwrap(result.value) =
                  BitOr(ModU64(MulAddSmall(Unwrap(call.upper), 67108864, 0)),
                        Unwrap(call.lower))

\* An upper half of 2^38 is shifted out of the u64 altogether.
C27_Witness ==
    /\ call = [fn |-> "merge", lower |-> Some(<<1>>), upper |-> Some(ShiftLeft(<<1>>, 38))]
    /\ result = Gave(Some(<<1>>))

====
